---- MODULE Spec2Model ----
(***************************************************************************)
(* Model of orthocontrol.py: the latch on the remote's volume readings,    *)
(* the target volume register, the volume sync worker thread and the       *)
(* connection loop of main().                                              *)
(*                                                                         *)
(* Time.  One tick is 50 ms, the worker's sleep quantum.  The code stores  *)
(* absolute time stamps (time.time()) and only ever compares differences   *)
(* of them, so the model stores every time stamp t as the age  clock - t   *)
(* (and a deadline d as the time left  d - clock); Tick advances all of    *)
(* them together.  An age saturates at the constant it is compared with.   *)
(* Statements between two blocking calls (sleep, join, a remote request)   *)
(* take no time.                                                           *)
(***************************************************************************)
EXTENDS Integers, FiniteSets, Sequences, TLC

\* ---------------------------------------------------------------- bounds
MaxConn == 2                \* connections opened in one run
MaxWrites == 3              \* register writes the call history remembers
debounce_interval == 2      \* debounce_ms of the wrapper, in ticks (0.1 s)
MaxTaps == 2                \* key events the history of taps remembers
MaxFunc == 1                \* ticks a call of the decorated function may take
MaxDevices == 2             \* devices in Spotify's answer to devices()

\* ------------------------------------------------------------- constants
LATCH_TOLERANCE_PERCENT == 3
SYNC_INTERVAL == 5          \* 0.25 s
RATE_LIMIT_BACKOFF == 200   \* 10.0 s
SLEEP_QUANTUM == 1          \* 0.05 s
JOIN_TIMEOUT == 20          \* 1.0 s
CC_MESSAGE == 176
CODE_PLAY == 16             \* the code of the play/pause key
NOTE_ON == 144

first_call_interval_threshold == 10     \* first_call_threshold_ms = 500
initial_throttle_interval == 1          \* initial_throttle_ms = 50
max_throttle_interval == 10             \* max_throttle_ms = 500
backoff_factor == <<3, 2>>              \* 1.5, as numerator and denominator

None == -1                  \* Python's None

\* control-change values the remote delivers in the whole-program runs: 36 and
\* 37 percent, one and no percent outside the tolerance around 40
Velocities == {46, 47}
\* volumes an application reports when it is asked, None when it cannot be asked
AppVolumes == {40}
Samples == AppVolumes \cup {None}
\* every control-change value and every volume, for the runs of the latch alone
AllVelocities == 0..127
AllSamples == (0..100) \cup {None}

Workers == 1..MaxConn

Min(a, b) == IF a < b THEN a ELSE b
Max(a, b) == IF a > b THEN a ELSE b
Abs(a) == IF a < 0 THEN -a ELSE a

VARIABLES
    sp,                             \* TRUE iff the Spotify client exists
    actual_app_volume_on_connect,   \* reference volume of the latch, or None
    is_latched,
    target_volume,                  \* the target register, or None
    stop_sync_thread,
    volume_sync_thread,             \* id of the worker started last, 0 if none
    main_pc,                        \* "idle", "open" or "join"
    join_age,                       \* ticks spent in join()
    worker,                         \* per worker: its position and locals
    last_velocity,                  \* history: last CC value of this connection
    calls,                          \* history: the calls of one worker
    lock,                           \* target_volume_lock and the two threads'
                                    \* positions around it
    api,                            \* the last two set-volume calls made on
                                    \* their own, with their answers
    throttle,                       \* the closure of one throttle_debounce
                                    \* wrapper, its timers and its executions
    strategy,                       \* the last call of a method of a media
                                    \* control strategy, with what it did
    taps,                           \* history: the key events posted
    device                          \* the last search for a device for volume
                                    \* control, with its answer

vars == <<sp, actual_app_volume_on_connect, is_latched, target_volume,
          stop_sync_thread, volume_sync_thread, main_pc, join_age, worker,
          last_velocity, calls, lock, api, throttle, strategy, taps,
          device>>

\* the variables of the connection loop, its callback and its workers
attached == <<sp, actual_app_volume_on_connect, is_latched, target_volume,
              stop_sync_thread, volume_sync_thread, main_pc, join_age, worker,
              last_velocity, calls, lock>>
\* the variables of the parts that are exercised on their own
detached == <<api, throttle, strategy, taps, device>>

\* ------------------------------------------------------------ midi_callback
\* the percentage rounded to the nearest integer
PercentRounded(velocity) == (velocity * 200 + 127) \div 254

\* the value of the message taken as the percentage
PercentUnscaled(velocity) == velocity

\* remote_value_percent = int((velocity / 127.0) * 100)
Percent(velocity) == (velocity * 100) \div 127

\* the tolerance bound taken as exclusive
WithinToleranceStrict(v, r) == Abs(v - r) < LATCH_TOLERANCE_PERCENT

\* the tolerance one percent too wide
WithinToleranceLoose(v, r) == Abs(v - r) <= LATCH_TOLERANCE_PERCENT + 1

\* abs(remote_value_percent - actual_app_volume_on_connect) <= LATCH_TOLERANCE_PERCENT
WithinTolerance(v, r) == Abs(v - r) <= LATCH_TOLERANCE_PERCENT

\* a latch that stays open when there is no reference volume
LatchAfterNeedsReference(latched, r, v) ==
    IF ~latched
    THEN IF r # None THEN WithinTolerance(v, r) ELSE FALSE
    ELSE latched

\* a latch that tests the tolerance on every reading, latched or not
LatchAfterRechecked(latched, r, v) ==
    IF r # None THEN WithinTolerance(v, r) ELSE TRUE

\* is_latched after the reading v; the reading is passed to set_volume exactly
\* when is_latched is true afterwards
LatchAfter(latched, r, v) ==
    IF ~latched
    THEN IF r # None THEN WithinTolerance(v, r) ELSE TRUE
    ELSE latched

\* a register that is only ever raised
set_volume_raise_only(target, volume_percentage) == Max(target, volume_percentage)

\* a register that is written once and then keeps its value
set_volume_keep_first(target, volume_percentage) ==
    IF target = None THEN volume_percentage ELSE target

\* set_volume: the register after writing volume_percentage
set_volume(target, volume_percentage) == volume_percentage

\* a callback that applies the reading itself: it puts the call in flight
midi_callback_direct(message_type, velocity) ==
    /\ main_pc = "open"
    /\ message_type = CC_MESSAGE
    /\ is_latched' = LatchAfter(is_latched, actual_app_volume_on_connect,
                                Percent(velocity))
    /\ target_volume' = IF is_latched' THEN Percent(velocity) ELSE target_volume
    /\ last_velocity' = velocity
    /\ worker' = IF is_latched'
                 THEN [worker EXCEPT ![volume_sync_thread] =
                          [@ EXCEPT !.pc = "call",
                                    !.current_target = Percent(velocity)]]
                 ELSE worker
    /\ UNCHANGED <<sp, actual_app_volume_on_connect, stop_sync_thread,
                   volume_sync_thread, main_pc, join_age>>

\* a message arrives while the callback is set; a note-on taps the play key,
\* which changes nothing here
midi_callback(message_type, velocity) ==
    /\ main_pc = "open"
    /\ IF message_type = CC_MESSAGE
       THEN LET remote_value_percent == Percent(velocity) IN
            /\ is_latched' = LatchAfter(is_latched, actual_app_volume_on_connect,
                                        remote_value_percent)
            /\ target_volume' =
                 IF is_latched'
                 THEN set_volume(target_volume, remote_value_percent)
                 ELSE target_volume
            /\ last_velocity' = velocity
       ELSE /\ message_type = NOTE_ON
            /\ UNCHANGED <<is_latched, target_volume, last_velocity>>
    /\ UNCHANGED <<sp, actual_app_volume_on_connect, stop_sync_thread,
                   volume_sync_thread, main_pc, join_age, worker>>

\* --------------------------------------------------- set_spotify_volume_api
\* A run is the sequence of answers the remote API gives to the requests of
\* one call: volume, then (after a SpotifyException) devices, transfer_playback
\* and the second volume.  "429" and "err" are SpotifyExceptions, "exc" is any
\* other exception.
SpotifyErrors == {"429", "err"}
Answers == {"ok", "429", "err", "exc"}
ApiRuns ==
    {<<"ok">>, <<"exc">>}
    \cup {<<e, d>> : e \in SpotifyErrors, d \in {"none", "429", "err", "exc"}}
    \cup {<<e, "dev", t>> : e \in SpotifyErrors, t \in {"429", "err", "exc"}}
    \cup {<<e, "dev", "ok", r>> : e \in SpotifyErrors, r \in Answers}

\* "True", "False", or the exception that leaves the function: "SpotifyException"
\* or "Exception".  Every SpotifyException is caught inside (the handler of the
\* first volume request, and the handler around the transfer and the retry), so
\* only other exceptions raised inside the first handler come out.
set_spotify_volume_api(run) ==
    IF run[1] = "ok" THEN "True"
    ELSE IF run[1] = "exc" THEN "False"
    ELSE \* except SpotifyException: look for a device, transfer, retry
         IF run[2] = "exc" THEN "Exception"
         ELSE IF run[2] # "dev" THEN "False"
         ELSE IF run[3] = "exc" THEN "Exception"
         ELSE IF run[3] # "ok" THEN "False"
         ELSE IF run[4] = "ok" THEN "True"
         ELSE IF run[4] = "exc" THEN "Exception"
         ELSE "False"

\* the volume passed on as it is
unclamped_volume(volume_percent) == volume_percent

\* clamped_volume = max(0, min(100, volume_percent))
clamped_volume(volume_percent) == Max(0, Min(100, volume_percent))

\* the values of the sp.volume requests of one call, in their order: the first
\* attempt, and the retry when a device was found and the transfer went through
volume_requests(run, volume_percent) ==
    IF Len(run) = 4
    THEN <<clamped_volume(volume_percent), clamped_volume(volume_percent)>>
    ELSE <<clamped_volume(volume_percent)>>

\* e.http_status of the exception the worker catches, 0 when there is none or
\* it has no such attribute
HttpStatus(run) ==
    IF set_spotify_volume_api(run) = "SpotifyException" /\ run[Len(run)] = "429"
    THEN 429 ELSE 0

\* the remote API answered a volume request of this call with HTTP 429 and the
\* call did not set the volume
AnsweredRateLimit(run) ==
    /\ set_spotify_volume_api(run) # "True"
    /\ \/ run[1] = "429"
       \/ Len(run) = 4 /\ run[4] = "429"

\* what one call can come to: its result, the status the worker sees, and
\* whether it was answered with a rate limit
ApiOutcomes ==
    {[result |-> set_spotify_volume_api(run), status |-> HttpStatus(run),
      limited |-> AnsweredRateLimit(run)] : run \in ApiRuns}

\* -------------------------------------------------------- throttle_debounce
\* One decorated function, called by one thread; every Timer runs its
\* callback in a thread of its own, and nothing in the closure is locked, so
\* the steps of the caller and of the Timer threads interleave.  The throttle
\* interval is kept in units of 1/Scale tick, which makes the products with
\* backoff_factor exact.  Times are kept as ages, which stop at AgeCap.
\* timers: the Timers in their waiting stage; slot marks the one that
\* debounce_timer[0] refers to.  caller: where the calling thread is in
\* wrapper, with its arguments, the age of its now and the branch it took.
\* threads: the Timer threads that have left the waiting stage; superseded is
\* history: a later call was accepted before the thread called the function.
Scale == 2 ^ 6
Arguments == {1, 2}
AgeCap == Max(first_call_interval_threshold, max_throttle_interval) + 1

Idle == [pc |-> "idle", args |-> None, now_age |-> 0, branch |-> "none"]

NewThrottle ==
    [last_call_age |-> AgeCap,
     last_interaction_end_age |-> AgeCap,
     debounce_timer |-> "None",
     current_throttle_interval |-> initial_throttle_interval * Scale,
     timers |-> {},
     caller |-> Idle,
     threads |-> {}]

\* debounce_timer[0].cancel(): Timer.cancel stops a timer only in its waiting
\* stage; the timers that are left
Cancel(timers, debounce_timer) ==
    IF debounce_timer # "None" THEN {t \in timers : ~t.slot} ELSE timers

\* an interaction that never counts as new
is_new_interaction_never(last_interaction_end_age) == FALSE

\* (now - last_interaction_end_time[0]) > first_call_interval_threshold
is_new_interaction(last_interaction_end_age) ==
    last_interaction_end_age > first_call_interval_threshold

\* now - last_call_time[0] > current_throttle_interval[0]
ThrottleConditionMet(last_call_age, current_throttle_interval) ==
    last_call_age * Scale > current_throttle_interval

\* a backoff without the ceiling
new_throttle_unbounded(current_throttle_interval) ==
    (current_throttle_interval * backoff_factor[1]) \div backoff_factor[2]

\* min(current_throttle_interval[0] * backoff_factor, max_throttle_interval)
new_throttle(current_throttle_interval) ==
    Min((current_throttle_interval * backoff_factor[1]) \div backoff_factor[2],
        max_throttle_interval * Scale)

\* the caller enters wrapper with the arguments args: it takes the time,
\* cancels the timer of the call before, and either starts the function (new
\* interaction, or throttle condition met) or starts a Timer and returns
wrapper(args) ==
    LET left == {[t EXCEPT !.slot = FALSE] :
                    t \in Cancel(throttle.timers, throttle.debounce_timer)}
        cancelled == [throttle EXCEPT
                         !.timers = left, !.debounce_timer = "None",
                         !.threads = {IF th.pc = "run"
                                      THEN [th EXCEPT !.superseded = TRUE]
                                      ELSE th : th \in throttle.threads}]
    IN /\ throttle.caller.pc = "idle"
       /\ throttle' =
            IF is_new_interaction(throttle.last_interaction_end_age)
            THEN [cancelled EXCEPT
                     !.current_throttle_interval = initial_throttle_interval * Scale,
                     !.caller = [pc |-> "func", args |-> args, now_age |-> 0,
                                 branch |-> "new"]]
            ELSE IF ThrottleConditionMet(throttle.last_call_age,
                                         throttle.current_throttle_interval)
            THEN [cancelled EXCEPT
                     !.caller = [pc |-> "func", args |-> args, now_age |-> 0,
                                 branch |-> "throttle"]]
            ELSE [cancelled EXCEPT
                     !.debounce_timer = "Timer",
                     !.timers = left \cup {[left |-> debounce_interval,
                                            args |-> args, slot |-> TRUE]}]
       /\ UNCHANGED <<attached, api, strategy, taps, device>>

\* the function returns to the caller: last_call_time[0] = now
wrapper_last_call_time ==
    /\ throttle.caller.pc = "func"
    /\ throttle' = [throttle EXCEPT
                       !.last_call_age = throttle.caller.now_age,
                       !.caller.pc = "stored"]
    /\ UNCHANGED <<attached, api, strategy, taps, device>>

\* last_interaction_end_time[0] = now, the backoff after a throttled
\* execution, and the return of wrapper
wrapper_last_interaction_end_time ==
    /\ throttle.caller.pc = "stored"
    /\ throttle' = [throttle EXCEPT
                       !.last_interaction_end_age = throttle.caller.now_age,
                       !.current_throttle_interval =
                           IF throttle.caller.branch = "throttle"
                           THEN new_throttle(@) ELSE @,
                       !.caller = Idle]
    /\ UNCHANGED <<attached, api, strategy, taps, device>>

\* a timer runs out uncancelled: Timer.run finds finished unset and goes on
\* to call call_it_debounced
Timer_run ==
    \E t \in throttle.timers :
        /\ t.left = 0
        /\ throttle' = [throttle EXCEPT
                           !.timers = @ \ {t},
                           !.threads = @ \cup {[pc |-> "run", args |-> t.args,
                                                age |-> 0, superseded |-> FALSE]}]
        /\ UNCHANGED <<attached, api, strategy, taps, device>>

\* call_it_debounced calls the function
call_it_debounced_func ==
    \E th \in throttle.threads :
        /\ th.pc = "run"
        /\ throttle' = [throttle EXCEPT
                           !.threads = (@ \ {th}) \cup {[th EXCEPT !.pc = "func"]}]
        /\ UNCHANGED <<attached, api, strategy, taps, device>>

\* the function returns to call_it_debounced, which takes the time:
\* last_call_time[0] = current_time_debounced
call_it_debounced_last_call_time ==
    \E th \in throttle.threads :
        /\ th.pc = "func"
        /\ throttle' = [throttle EXCEPT
                           !.last_call_age = 0,
                           !.threads = (@ \ {th}) \cup {[th EXCEPT !.pc = "stored"]}]
        /\ UNCHANGED <<attached, api, strategy, taps, device>>

\* last_interaction_end_time[0] = current_time_debounced, and the thread ends
call_it_debounced_last_interaction_end_time ==
    \E th \in throttle.threads :
        /\ th.pc = "stored"
        /\ throttle' = [throttle EXCEPT
                           !.last_interaction_end_age = 0,
                           !.threads = @ \ {th}]
        /\ UNCHANGED <<attached, api, strategy, taps, device>>

\* one tick passes for the wrapper.  The function takes up to MaxFunc ticks;
\* every other step of a thread takes less than a tick.
TickThrottle ==
    /\ \A t \in throttle.timers : t.left > 0
    /\ \A th \in throttle.threads : th.pc = "func" /\ th.age < MaxFunc
    /\ throttle.caller.pc \in {"idle", "func"}
    /\ throttle.caller.pc = "func" => throttle.caller.now_age < MaxFunc
    /\ throttle' = [throttle EXCEPT
          !.last_call_age = Min(@ + 1, AgeCap),
          !.last_interaction_end_age = Min(@ + 1, AgeCap),
          !.timers = {[t EXCEPT !.left = @ - 1] : t \in throttle.timers},
          !.threads = {[th EXCEPT !.age = @ + 1] : th \in throttle.threads},
          !.caller.now_age = IF throttle.caller.pc = "func" THEN @ + 1 ELSE @]
    /\ UNCHANGED <<attached, api, strategy, taps, device>>

\* ------------------------------------- SpotifyApiMediaStrategy.set_volume
\* A run of the strategy's set_volume: "unavailable" when is_available is
\* false; else the answer to the device lookup ("dev" when it yields a device
\* id, "none" when it yields none, or what the remote API raised in it) and,
\* with a device, the answer to the volume request.
StrategyRuns ==
    {<<d>> : d \in {"unavailable", "none", "429", "err", "exc"}}
    \cup {<<"dev", a>> : a \in Answers}

\* get_spotify_device_id_for_volume_control catches whatever is raised in it
\* and returns None; set_volume returns False for no device, for a
\* SpotifyException and for any other exception
SpotifyApiMediaStrategy_set_volume(run) ==
    IF run[1] # "dev" THEN "False"
    ELSE IF run[2] = "ok" THEN "True"
    ELSE "False"

\* the values of the sp.volume requests of one call of the strategy
SpotifyApiMediaStrategy_volume_requests(run, volume_percent) ==
    IF run[1] = "dev" THEN <<clamped_volume(volume_percent)>> ELSE <<>>

\* ------------------------------------------------------ set-volume calls
\* the volumes a caller may pass
RequestedVolumes == {-3, 37, 140}

NoCall == [function |-> "none", run |-> <<>>, result |-> "none",
           volume_percent |-> None, requests |-> <<>>]
NoApi == [previous |-> NoCall, last |-> NoCall]

\* a call of set_spotify_volume_api with a client, answered as in run
call_set_spotify_volume_api(volume_percent, run) ==
    /\ api' = [previous |-> api.last,
               last |-> [function |-> "set_spotify_volume_api", run |-> run,
                         result |-> set_spotify_volume_api(run),
                         volume_percent |-> volume_percent,
                         requests |-> volume_requests(run, volume_percent)]]
    /\ UNCHANGED <<attached, throttle, strategy, taps, device>>

\* a call of the strategy's set_volume for Spotify, answered as in run
call_SpotifyApiMediaStrategy_set_volume(volume_percent, run) ==
    /\ api' = [previous |-> api.last,
               last |-> [function |-> "SpotifyApiMediaStrategy.set_volume",
                         run |-> run,
                         result |-> SpotifyApiMediaStrategy_set_volume(run),
                         volume_percent |-> volume_percent,
                         requests |->
                            SpotifyApiMediaStrategy_volume_requests(run, volume_percent)]]
    /\ UNCHANGED <<attached, throttle, strategy, taps, device>>

\* -------------------------------------------------- media control strategies
\* The three classes of orthocontrol/control.  A world is what a call meets:
\* whether the strategy holds a Spotify client, the applications that run,
\* how osascript ends, whether a key event can be posted, and how the Web
\* API answers.  A method gives its return value and whether a command
\* reached the application.
Strategies == {"AppleScript", "SpotifyAPI", "SystemMediaKeys"}
Methods == {"get_volume", "set_volume", "toggle_play_pause"}
AppNames == {"spotify", "music", "vlc"}
VolumePercents == {37, 101}
Worlds ==
    [sp : BOOLEAN,
     running : SUBSET AppNames,
     osascript : {"ok", "nonzero"},
     keys : {"ok", "exc"},
     run : StrategyRuns \ {<<"unavailable">>}]

Returned(result, acted) == [result |-> result, acted |-> acted]

AppleScript_is_available(app_name, world) ==
    IF app_name \notin {"spotify", "music"}
    THEN FALSE
    ELSE app_name \in world.running

AppleScript_get_volume(app_name, world) ==
    IF ~AppleScript_is_available(app_name, world)
    THEN Returned(None, FALSE)
    ELSE IF world.osascript = "ok"
         THEN Returned(CHOOSE v \in AppVolumes : TRUE, TRUE)
         ELSE Returned(None, FALSE)

\* the script itself looks for the process and does nothing without it;
\* osascript ends with 0 either way
AppleScript_set_volume(app_name, volume_percent, world) ==
    IF ~(0 <= volume_percent /\ volume_percent <= 100)
    THEN Returned("False", FALSE)
    ELSE Returned(IF world.osascript = "ok" THEN "True" ELSE "False",
                  world.osascript = "ok" /\ app_name \in world.running)

AppleScript_toggle_play_pause(app_name, world) ==
    IF ~AppleScript_is_available(app_name, world)
    THEN Returned("False", FALSE)
    ELSE Returned(IF world.osascript = "ok" THEN "True" ELSE "False",
                  world.osascript = "ok" /\ app_name \in world.running)

SpotifyApi_is_available(app_name, world) ==
    IF app_name # "spotify" THEN FALSE
    ELSE IF ~world.sp THEN FALSE
    ELSE TRUE

\* current_playback() answers with a device and its volume, with nothing,
\* or raises
SpotifyApi_get_volume(app_name, world) ==
    IF ~SpotifyApi_is_available(app_name, world)
    THEN Returned(None, FALSE)
    ELSE IF world.run[1] = "dev" /\ world.run[2] = "ok"
         THEN Returned(CHOOSE v \in AppVolumes : TRUE, TRUE)
         ELSE Returned(None, world.run[1] = "dev")

SpotifyApi_set_volume(app_name, volume_percent, world) ==
    LET run == IF SpotifyApi_is_available(app_name, world)
               THEN world.run ELSE <<"unavailable">>
    IN Returned(SpotifyApiMediaStrategy_set_volume(run), run[1] = "dev")

SpotifyApi_toggle_play_pause(app_name, world) ==
    IF ~SpotifyApi_is_available(app_name, world)
    THEN Returned("False", FALSE)
    ELSE IF world.run[1] = "dev" /\ world.run[2] = "ok"
         THEN Returned("True", TRUE)
         ELSE Returned("False", world.run[1] = "dev")

SystemMediaKeys_is_available(app_name, world) == TRUE

SystemMediaKeys_get_volume(app_name, world) == Returned(None, FALSE)

SystemMediaKeys_set_volume(app_name, volume_percent, world) ==
    Returned("False", FALSE)

\* _send_media_key_event(NX_KEYTYPE_PLAY)
SystemMediaKeys_toggle_play_pause(app_name, world) ==
    IF world.keys = "ok" THEN Returned("True", TRUE) ELSE Returned("False", FALSE)

is_available(name, app_name, world) ==
    CASE name = "AppleScript" -> AppleScript_is_available(app_name, world)
      [] name = "SpotifyAPI" -> SpotifyApi_is_available(app_name, world)
      [] OTHER -> SystemMediaKeys_is_available(app_name, world)

get_volume(name, app_name, world) ==
    CASE name = "AppleScript" -> AppleScript_get_volume(app_name, world)
      [] name = "SpotifyAPI" -> SpotifyApi_get_volume(app_name, world)
      [] OTHER -> SystemMediaKeys_get_volume(app_name, world)

strategy_set_volume(name, app_name, volume_percent, world) ==
    CASE name = "AppleScript" -> AppleScript_set_volume(app_name, volume_percent, world)
      [] name = "SpotifyAPI" -> SpotifyApi_set_volume(app_name, volume_percent, world)
      [] OTHER -> SystemMediaKeys_set_volume(app_name, volume_percent, world)

strategy_toggle_play_pause(name, app_name, world) ==
    CASE name = "AppleScript" -> AppleScript_toggle_play_pause(app_name, world)
      [] name = "SpotifyAPI" -> SpotifyApi_toggle_play_pause(app_name, world)
      [] OTHER -> SystemMediaKeys_toggle_play_pause(app_name, world)

NoStrategyCall ==
    [name |-> "none", method |-> "none", app_name |-> "none",
     volume_percent |-> None, available |-> FALSE,
     returned |-> Returned("none", FALSE)]

\* one call of a method of a strategy
call_strategy(name, method, app_name, volume_percent, world) ==
    /\ strategy' =
          [name |-> name, method |-> method, app_name |-> app_name,
           volume_percent |-> IF method = "set_volume" THEN volume_percent ELSE None,
           available |-> is_available(name, app_name, world),
           returned |->
              CASE method = "get_volume" -> get_volume(name, app_name, world)
                [] method = "set_volume" ->
                      strategy_set_volume(name, app_name, volume_percent, world)
                [] OTHER -> strategy_toggle_play_pause(name, app_name, world)]
    /\ UNCHANGED <<attached, api, throttle, taps, device>>

\* -------- SpotifyApiMediaStrategy.get_spotify_device_id_for_volume_control
DeviceTypes == {"Computer", "Speaker", "Smartphone"}
DeviceNames == {"", "Den"}
\* the id of the device of the current playback
PlaybackId == MaxDevices + 1

\* the answers of current_playback(): nothing, a playback without device, a
\* playback on a device with or without id, playing or paused
Playbacks ==
    {[info |-> FALSE, has_device |-> FALSE, id |-> None, is_playing |-> FALSE]}
    \cup [info : {TRUE}, has_device : {FALSE}, id : {None},
          is_playing : BOOLEAN]
    \cup [info : {TRUE}, has_device : {TRUE}, id : {None, PlaybackId},
          is_playing : BOOLEAN]

\* the answers of devices(): the device at position i has the id i or none
DeviceLists ==
    UNION {{l \in [1..n -> [type : DeviceTypes, id : {None} \cup (1..n),
                            name : DeviceNames, is_restricted : BOOLEAN]] :
               \A i \in 1..n : l[i].id \in {None, i}} : n \in 0..MaxDevices}

\* the request that raises, if one does, and what it raises
Failures ==
    {[request |-> "none", raises |-> "none"]}
    \cup [request : {"current_playback", "devices", "transfer_playback"},
          raises : {"SpotifyException", "Exception"}]

\* the preference of the types in the reverse order
preferred_device_types_reversed == <<"Speaker", "Computer">>

preferred_device_types == <<"Computer", "Speaker">>

\* the position of the first device of all_devices with an id that is not
\* restricted and, if dev_type is not "", is of that type; 0 if there is none
first_device(all_devices, dev_type) ==
    LET found == {i \in 1..Len(all_devices) :
                    /\ dev_type # "" => all_devices[i].type = dev_type
                    /\ all_devices[i].id # None
                    /\ ~all_devices[i].is_restricted}
    IN IF found = {} THEN 0
       ELSE CHOOSE i \in found : \A j \in found : i <= j

\* the position of the target device: the first of a preferred type in the
\* order of the preference, else the first of any type; 0 if there is none
target_device(all_devices) ==
    LET first == first_device(all_devices, preferred_device_types[1])
        second == first_device(all_devices, preferred_device_types[2])
    IN IF first # 0 THEN first
       ELSE IF second # 0 THEN second
       ELSE first_device(all_devices, "")

\* what the search returns and the device it asked to transfer playback to
Found(device_id, transfer_playback) ==
    [device_id |-> device_id, transfer_playback |-> transfer_playback]

get_spotify_device_id_for_volume_control(current_playback_info, all_devices, failure) ==
    LET active_device_id_from_playback ==
            IF current_playback_info.info /\ current_playback_info.has_device
            THEN current_playback_info.id ELSE None
        target == target_device(all_devices)
    IN IF failure.request = "current_playback" THEN Found(None, None)
       ELSE IF active_device_id_from_playback # None
       THEN Found(active_device_id_from_playback, None)
       ELSE IF failure.request = "devices" THEN Found(None, None)
       ELSE IF all_devices = <<>> THEN Found(None, None)
       ELSE IF target = 0 \/ all_devices[target].name = ""
       THEN Found(None, None)
       ELSE IF all_devices[target].id # active_device_id_from_playback
       THEN IF failure.request = "transfer_playback"
            THEN Found(None, all_devices[target].id)
            ELSE Found(all_devices[target].id, all_devices[target].id)
       ELSE Found(all_devices[target].id, None)

NoSearch ==
    [searched |-> FALSE,
     current_playback_info |->
        [info |-> FALSE, has_device |-> FALSE, id |-> None, is_playing |-> FALSE],
     all_devices |-> <<>>,
     failure |-> [request |-> "none", raises |-> "none"],
     returned |-> Found(None, None)]

\* the search for a device with the answers Spotify is going to give
call_get_spotify_device_id_for_volume_control ==
    /\ ~device.searched
    /\ device' =
          [device EXCEPT
              !.searched = TRUE,
              !.returned = get_spotify_device_id_for_volume_control(
                               device.current_playback_info,
                               device.all_devices, device.failure)]
    /\ UNCHANGED <<attached, api, throttle, strategy, taps>>

\* ------------------------------------------------------ volume_sync_worker
\* Worker w is the thread started by the w-th connection.  pc: "none" (not
\* started), "sleep" (in time.sleep(0.05)), "wake" (the sleep is over), "call"
\* (inside set_spotify_volume_api), "done" (left the loop).
NoWorker == [pc |-> "none", last_synced_volume |-> None, last_sync_age |-> 0,
             rate_limit_left |-> 0, now_age |-> 0, current_target |-> None]
DoneWorker == [NoWorker EXCEPT !.pc = "done"]
\* last_synced_volume = None, last_sync_time = 0, rate_limited_until = 0
NewWorker == [pc |-> "sleep", last_synced_volume |-> None,
              last_sync_age |-> SYNC_INTERVAL,
              rate_limit_left |-> 0, now_age |-> 0, current_target |-> None]

Running(w) == worker[w].pc \in {"sleep", "wake", "call"}

\* while not stop_sync_thread: ... time.sleep(0.05)
LoopHead(stop) == IF stop THEN "done" ELSE "sleep"

\* if now < rate_limited_until: continue
RateLimited(rate_limit_left) == rate_limit_left > 0
\* if now - last_sync_time < SYNC_INTERVAL: continue
TooSoon(last_sync_age) == last_sync_age < SYNC_INTERVAL
\* the comparison with last_synced_volume left out
ChangedIgnoringLastSynced(current_target, last_synced_volume) ==
    current_target # None

\* if current_target is not None and current_target != last_synced_volume
Changed(current_target, last_synced_volume) ==
    current_target # None /\ current_target # last_synced_volume

\* the call made without looking at sp
InvokesWithoutClient(w) ==
    /\ ~RateLimited(worker[w].rate_limit_left)
    /\ ~TooSoon(worker[w].last_sync_age)
    /\ Changed(target_volume, worker[w].last_synced_volume)

\* the cycle gets as far as calling set_spotify_volume_api
Invokes(w) ==
    /\ ~RateLimited(worker[w].rate_limit_left)
    /\ ~TooSoon(worker[w].last_sync_age)
    /\ Changed(target_volume, worker[w].last_synced_volume)
    /\ sp

\* a cycle that makes no call, and the loop test after it
WorkerSkip(w) ==
    /\ worker[w].pc = "wake"
    /\ ~Invokes(w)
    /\ worker' = [worker EXCEPT ![w] =
          IF LoopHead(stop_sync_thread) = "done" THEN DoneWorker
          ELSE [@ EXCEPT !.pc = "sleep"]]
    /\ UNCHANGED <<sp, actual_app_volume_on_connect, is_latched, target_volume,
                   stop_sync_thread, volume_sync_thread, main_pc, join_age,
                   last_velocity>>

\* a cycle that takes the snapshot and calls set_spotify_volume_api
WorkerInvoke(w) ==
    /\ worker[w].pc = "wake"
    /\ Invokes(w)
    /\ worker' = [worker EXCEPT ![w] =
          [@ EXCEPT !.pc = "call", !.now_age = 0, !.current_target = target_volume]]
    /\ UNCHANGED <<sp, actual_app_volume_on_connect, is_latched, target_volume,
                   stop_sync_thread, volume_sync_thread, main_pc, join_age,
                   last_velocity>>

\* last_synced_volume never recorded
SyncedVolumeAfterNotRecorded(result, last_synced_volume, current_target) ==
    last_synced_volume

\* last_synced_volume recorded whatever the call returns
SyncedVolumeAfterAnyResult(result, last_synced_volume, current_target) ==
    current_target

\* last_synced_volume taken from the register when the call returns
SyncedVolumeAfterRegister(result, last_synced_volume, current_target) ==
    IF result = "True" THEN target_volume ELSE last_synced_volume

\* last_synced_volume after the call
SyncedVolumeAfter(result, last_synced_volume, current_target) ==
    IF result = "True" THEN current_target ELSE last_synced_volume
\* last_sync_time never recorded
SyncAgeAfterNotRecorded(result, last_sync_age, now_age) == last_sync_age

\* last_sync_time after the call: last_sync_time = now
SyncAgeAfter(result, last_sync_age, now_age) ==
    IF result = "True" THEN now_age ELSE last_sync_age
\* rate_limited_until after the call: now + RATE_LIMIT_BACKOFF in the handler
\* of a SpotifyException whose http_status is 429
RateLimitAfter(result, status, rate_limit_left, now_age) ==
    IF result = "SpotifyException" /\ status = 429
    THEN RATE_LIMIT_BACKOFF - now_age
    ELSE rate_limit_left

\* the handlers without the except Exception clauses
CaughtSpotifyExceptionOnly(result) ==
    result \in {"True", "False", "SpotifyException"}

\* the call returns, or what it raises is caught inside the loop body: a
\* SpotifyException by the first handler, anything else by except Exception
Caught(result) ==
    result \in {"True", "False", "SpotifyException", "Exception"}

\* set_spotify_volume_api returns or raises, and the loop test after it
WorkerReturn(w, outcome) ==
    /\ worker[w].pc = "call"
    /\ LET result == outcome.result
           me == worker[w]
       IN /\ worker' = [worker EXCEPT ![w] =
                IF ~Caught(result) \/ LoopHead(stop_sync_thread) = "done"
                THEN DoneWorker
                ELSE [pc |-> "sleep",
                      last_synced_volume |->
                          SyncedVolumeAfter(result, me.last_synced_volume, me.current_target),
                      last_sync_age |-> SyncAgeAfter(result, me.last_sync_age, me.now_age),
                      rate_limit_left |->
                          RateLimitAfter(result, outcome.status,
                                         me.rate_limit_left, me.now_age),
                      now_age |-> 0,
                      current_target |-> None]]
    /\ UNCHANGED <<sp, actual_app_volume_on_connect, is_latched, target_volume,
                   stop_sync_thread, volume_sync_thread, main_pc, join_age,
                   last_velocity>>

\* ------------------------------------------------------------------- main
\* the reference volume after sampling Spotify and then Music
ReferenceOnConnect(old, spotify, music) ==
    LET afterSpotify == IF spotify # None /\ old = None THEN spotify ELSE old
    IN IF music # None /\ afterSpotify = None THEN music ELSE afterSpotify

\* the port appears: open it, sample the volumes, reset the latch, set the
\* callback and start the worker
Connect(spotify, music) ==
    /\ main_pc = "idle"
    /\ volume_sync_thread < MaxConn
    /\ actual_app_volume_on_connect' =
           ReferenceOnConnect(actual_app_volume_on_connect, spotify, music)
    /\ is_latched' = FALSE
    /\ stop_sync_thread' = FALSE
    /\ volume_sync_thread' = volume_sync_thread + 1
    /\ worker' = [worker EXCEPT ![volume_sync_thread + 1] = NewWorker]
    /\ main_pc' = "open"
    /\ last_velocity' = None
    /\ UNCHANGED <<sp, target_volume, join_age>>

\* the port disappears: leave the polling loop, set the stop flag, join
Disconnect ==
    /\ main_pc = "open"
    /\ stop_sync_thread' = TRUE
    /\ main_pc' = "join"
    /\ join_age' = 0
    /\ UNCHANGED <<sp, actual_app_volume_on_connect, is_latched, target_volume,
                   volume_sync_thread, worker, last_velocity>>

\* join() returns because the worker has ended; cancel the callback
JoinFinished ==
    /\ main_pc = "join"
    /\ worker[volume_sync_thread].pc = "done"
    /\ main_pc' = "idle"
    /\ join_age' = 0
    /\ UNCHANGED <<sp, actual_app_volume_on_connect, is_latched, target_volume,
                   stop_sync_thread, volume_sync_thread, worker, last_velocity>>

\* a join without timeout: it returns only when the worker has ended
JoinWithoutTimeout ==
    /\ main_pc = "join"
    /\ worker[volume_sync_thread].pc = "done"
    /\ main_pc' = "idle"
    /\ join_age' = 0
    /\ UNCHANGED <<sp, actual_app_volume_on_connect, is_latched, target_volume,
                   stop_sync_thread, volume_sync_thread, worker, last_velocity>>

\* join(timeout=1.0) returns with the worker still alive
JoinTimeout ==
    /\ main_pc = "join"
    /\ worker[volume_sync_thread].pc # "done"
    /\ join_age >= JOIN_TIMEOUT
    /\ main_pc' = "idle"
    /\ join_age' = 0
    /\ UNCHANGED <<sp, actual_app_volume_on_connect, is_latched, target_volume,
                   stop_sync_thread, volume_sync_thread, worker, last_velocity>>

\* an exception inside the with block while the port is open: the except
\* clause logs it, the port is closed, the stop flag is not touched
PortException ==
    /\ main_pc = "open"
    /\ main_pc' = "idle"
    /\ UNCHANGED <<sp, actual_app_volume_on_connect, is_latched, target_volume,
                   stop_sync_thread, volume_sync_thread, join_age, worker,
                   last_velocity, calls>>

\* ------------------------------------------------------------------- time
\* 50 ms pass.  A worker whose sleep is over runs its cycle before more time
\* passes.
Tick ==
    /\ \A w \in Workers : worker[w].pc # "wake"
    /\ worker' = [w \in Workers |->
          IF ~Running(w) THEN worker[w]
          ELSE [worker[w] EXCEPT
                  !.pc = IF @ = "sleep" THEN "wake" ELSE @,
                  !.last_sync_age = Min(@ + SLEEP_QUANTUM, SYNC_INTERVAL),
                  !.rate_limit_left = Max(@ - SLEEP_QUANTUM, 0),
                  !.now_age = IF worker[w].pc = "call"
                              THEN Min(@ + SLEEP_QUANTUM, SYNC_INTERVAL) ELSE @]]
    /\ join_age' = IF main_pc = "join"
                   THEN Min(join_age + SLEEP_QUANTUM, JOIN_TIMEOUT) ELSE join_age
    /\ UNCHANGED <<sp, actual_app_volume_on_connect, is_latched, target_volume,
                   stop_sync_thread, volume_sync_thread, main_pc,
                   last_velocity>>


\* ------------------------------------------------------ target_volume_lock
\* The steps of set_volume and of the worker's snapshot around the lock.
\* locked: the lock is held.  set_volume_pc: "out", "acquire" (waiting for the
\* lock), "in" (inside the with block, before the assignment), "stored" (after
\* it).  snapshot_pc: "out", "in" (inside the with block), "read" (after the
\* assignment of current_target).  written: history of the values stored.
NoLock == [locked |-> FALSE,
           set_volume_pc |-> "out", volume_percentage |-> None,
           snapshot_pc |-> "out", current_target |-> None,
           written |-> {}]

\* an acquire that does not wait for the holder
AcquirableAlways(locked) == TRUE

\* Lock.acquire returns when the lock is free
Acquirable(locked) == ~locked

\* a control change arrives: the latch logic up to the call of set_volume
set_volume_call(velocity) ==
    /\ main_pc = "open"
    /\ lock.set_volume_pc = "out"
    /\ is_latched' = LatchAfter(is_latched, actual_app_volume_on_connect,
                                Percent(velocity))
    /\ last_velocity' = velocity
    /\ lock' = IF is_latched'
               THEN [lock EXCEPT !.set_volume_pc = "acquire",
                                 !.volume_percentage = Percent(velocity)]
               ELSE lock
    /\ UNCHANGED <<sp, actual_app_volume_on_connect, target_volume,
                   stop_sync_thread, volume_sync_thread, main_pc, join_age,
                   worker, calls, detached>>

\* with target_volume_lock:
set_volume_acquire ==
    /\ lock.set_volume_pc = "acquire"
    /\ Acquirable(lock.locked)
    /\ lock' = [lock EXCEPT !.locked = TRUE, !.set_volume_pc = "in"]
    /\ UNCHANGED <<sp, actual_app_volume_on_connect, is_latched, target_volume,
                   stop_sync_thread, volume_sync_thread, main_pc, join_age,
                   worker, last_velocity, calls, detached>>

\* target_volume = volume_percentage
set_volume_store ==
    /\ lock.set_volume_pc = "in"
    /\ target_volume' = set_volume(target_volume, lock.volume_percentage)
    /\ lock' = [lock EXCEPT !.set_volume_pc = "stored",
                            !.written = @ \cup {lock.volume_percentage}]
    /\ UNCHANGED <<sp, actual_app_volume_on_connect, is_latched,
                   stop_sync_thread, volume_sync_thread, main_pc, join_age,
                   worker, last_velocity, calls, detached>>

\* the with block of set_volume ends
set_volume_release ==
    /\ lock.set_volume_pc = "stored"
    /\ lock' = [lock EXCEPT !.locked = FALSE, !.set_volume_pc = "out"]
    /\ UNCHANGED <<sp, actual_app_volume_on_connect, is_latched, target_volume,
                   stop_sync_thread, volume_sync_thread, main_pc, join_age,
                   worker, last_velocity, calls, detached>>

\* the worker: with target_volume_lock:
snapshot_acquire ==
    /\ Running(1)
    /\ lock.snapshot_pc = "out"
    /\ Acquirable(lock.locked)
    /\ lock' = [lock EXCEPT !.locked = TRUE, !.snapshot_pc = "in"]
    /\ UNCHANGED <<sp, actual_app_volume_on_connect, is_latched, target_volume,
                   stop_sync_thread, volume_sync_thread, main_pc, join_age,
                   worker, last_velocity, calls, detached>>

\* current_target = target_volume
snapshot_read ==
    /\ lock.snapshot_pc = "in"
    /\ lock' = [lock EXCEPT !.snapshot_pc = "read", !.current_target = target_volume]
    /\ UNCHANGED <<sp, actual_app_volume_on_connect, is_latched, target_volume,
                   stop_sync_thread, volume_sync_thread, main_pc, join_age,
                   worker, last_velocity, calls, detached>>

\* the with block of the snapshot ends
snapshot_release ==
    /\ lock.snapshot_pc = "read"
    /\ lock' = [lock EXCEPT !.locked = FALSE, !.snapshot_pc = "out"]
    /\ UNCHANGED <<sp, actual_app_volume_on_connect, is_latched, target_volume,
                   stop_sync_thread, volume_sync_thread, main_pc, join_age,
                   worker, last_velocity, calls, detached>>

\* ---------------------------------------------------------- observation
\* History of the calls of worker w: the value and the result of its last call
\* that returned, the age of the start of its last call, and for the call in
\* flight the age the call before it had when this one was made (None for the
\* first call); the values written to the target register since the worker's
\* last snapshot (the last MaxWrites of them), and for the call in flight the
\* values written between the snapshot before and its own, and for the last
\* call that returned the values written while it was in flight; the target
\* that the last cycle found changed and did not send (None if there is none).
NoCalls == [last_sent |-> None, last_result |-> "none",
            since_call |-> SYNC_INTERVAL, gap |-> None,
            pending |-> <<>>, coalesced |-> <<>>, in_flight |-> <<>>,
            skipped |-> None]

LastWrites(writes) == IF Len(writes) > MaxWrites THEN Tail(writes) ELSE writes

\* the callback passes a reading to set_volume
ObserveWrite ==
    calls' = IF is_latched'
             THEN [calls EXCEPT !.pending =
                       LastWrites(Append(@, Percent(last_velocity')))]
             ELSE calls

\* tap(code): one key event with the code is posted
tap(code, posted) == Append(posted, code)

\* a play/pause that taps the key twice
toggle_play_pause_twice(posted) == tap(CODE_PLAY, tap(CODE_PLAY, posted))

\* toggle_play_pause(): tap(CODE_PLAY)
toggle_play_pause(posted) == tap(CODE_PLAY, posted)

\* the callback handles a message: a note-on calls toggle_play_pause
ObserveTap(message_type) ==
    taps' = IF message_type = NOTE_ON THEN toggle_play_pause(taps) ELSE taps

ObserveInvoke(w) ==
    calls' = [calls EXCEPT !.gap = IF calls.last_result = "none" THEN None
                                   ELSE calls.since_call,
                           !.since_call = 0,
                           !.coalesced = calls.pending,
                           !.pending = <<>>,
                           !.in_flight = <<>>,
                           !.skipped = None]

ObserveReturn(w, outcome) ==
    calls' = IF worker'[w].pc = "done" THEN NoCalls
             ELSE [calls EXCEPT !.last_sent = worker[w].current_target,
                                !.last_result =
                                    IF outcome.result = "True" THEN "ok"
                                    ELSE IF outcome.limited THEN "limited"
                                    ELSE IF outcome.result = "False" THEN "fail"
                                    ELSE "raised",
                                !.gap = None,
                                !.coalesced = <<>>,
                                !.in_flight = calls.pending]

ObserveSkip(w) ==
    calls' = IF worker'[w].pc = "done" THEN NoCalls
             ELSE [calls EXCEPT !.skipped =
                      IF /\ ~RateLimited(worker[w].rate_limit_left)
                         /\ ~TooSoon(worker[w].last_sync_age)
                         /\ Changed(target_volume, worker[w].last_synced_volume)
                      THEN target_volume
                      ELSE None]

ObserveTick(w) ==
    calls' = IF Running(w)
             THEN [calls EXCEPT !.since_call = Min(@ + SLEEP_QUANTUM, SYNC_INTERVAL)]
             ELSE calls

\* ------------------------------------------------------------ specification
\* The state when main() enters its connection loop: the Spotify client exists
\* or not, and with a client the reference may already hold Spotify's volume.
Init ==
    /\ sp \in BOOLEAN
    /\ actual_app_volume_on_connect \in (IF sp THEN Samples ELSE {None})
    /\ is_latched = FALSE
    /\ target_volume = None
    /\ stop_sync_thread = FALSE
    /\ volume_sync_thread = 0
    /\ main_pc = "idle"
    /\ join_age = 0
    /\ worker = [w \in Workers |-> NoWorker]
    /\ last_velocity = None
    /\ calls = NoCalls
    /\ lock = NoLock
    /\ api = NoApi
    /\ throttle = NewThrottle
    /\ strategy = NoStrategyCall
    /\ taps = <<>>
    /\ device = NoSearch

\* the whole program: up to MaxConn connections, every worker
Next ==
    \/ \E spotify \in Samples, music \in Samples :
          Connect(spotify, music) /\ UNCHANGED <<calls, lock, detached>>
    \/ \E velocity \in Velocities :
          midi_callback(CC_MESSAGE, velocity) /\ UNCHANGED <<calls, lock, detached>>
    \/ midi_callback(NOTE_ON, 0) /\ UNCHANGED <<calls, lock, detached>>
    \/ Disconnect /\ UNCHANGED <<calls, lock, detached>>
    \/ JoinFinished /\ UNCHANGED <<calls, lock, detached>>
    \/ JoinTimeout /\ UNCHANGED <<calls, lock, detached>>
    \/ PortException /\ UNCHANGED <<calls, lock, detached>>
    \/ \E w \in Workers : WorkerSkip(w) /\ UNCHANGED <<calls, lock, detached>>
    \/ \E w \in Workers : WorkerInvoke(w) /\ UNCHANGED <<calls, lock, detached>>
    \/ \E w \in Workers, outcome \in ApiOutcomes :
          WorkerReturn(w, outcome) /\ UNCHANGED <<calls, lock, detached>>
    \/ Tick /\ UNCHANGED <<calls, lock, detached>>

Spec == Init /\ [][Next]_vars

\* the first connection and its worker, with the history of the worker's calls
NextSync ==
    \/ \E spotify \in Samples, music \in Samples :
          volume_sync_thread = 0 /\ Connect(spotify, music) /\ UNCHANGED <<calls, lock, detached>>
    \/ \E velocity \in Velocities :
          midi_callback(CC_MESSAGE, velocity) /\ UNCHANGED <<calls, lock, detached>>
    \/ midi_callback(NOTE_ON, 0) /\ UNCHANGED <<calls, lock, detached>>
    \/ Disconnect /\ UNCHANGED <<calls, lock, detached>>
    \/ JoinFinished /\ UNCHANGED <<calls, lock, detached>>
    \/ JoinTimeout /\ UNCHANGED <<calls, lock, detached>>
    \/ PortException /\ UNCHANGED <<calls, lock, detached>>
    \/ \E w \in Workers : WorkerSkip(w) /\ ObserveSkip(w) /\ UNCHANGED <<lock, detached>>
    \/ \E w \in Workers : WorkerInvoke(w) /\ ObserveInvoke(w) /\ UNCHANGED <<lock, detached>>
    \/ \E w \in Workers, outcome \in ApiOutcomes :
          WorkerReturn(w, outcome) /\ ObserveReturn(w, outcome) /\ UNCHANGED <<lock, detached>>
    \/ \E w \in Workers : volume_sync_thread = w /\ Tick /\ ObserveTick(w) /\ UNCHANGED <<lock, detached>>

SyncSpec == Init /\ [][NextSync]_vars

\* the first connection while it lasts: the callback writing the register and
\* the worker reading it, with the history of the writes
NextCoalesce ==
    \/ \E spotify \in Samples, music \in Samples :
          volume_sync_thread = 0 /\ Connect(spotify, music) /\ UNCHANGED <<calls, lock, detached>>
    \/ \E velocity \in Velocities :
          midi_callback(CC_MESSAGE, velocity) /\ ObserveWrite /\ UNCHANGED <<lock, detached>>
    \/ WorkerSkip(1) /\ ObserveSkip(1) /\ UNCHANGED <<lock, detached>>
    \/ WorkerInvoke(1) /\ ObserveInvoke(1) /\ UNCHANGED <<lock, detached>>
    \/ \E outcome \in ApiOutcomes : WorkerReturn(1, outcome) /\ ObserveReturn(1, outcome) /\ UNCHANGED <<lock, detached>>
    \/ Tick /\ ObserveTick(1) /\ UNCHANGED <<lock, detached>>

CoalesceSpec == Init /\ [][NextCoalesce]_vars

\* the first connection with an API whose calls all return True.  The worker
\* thread is scheduled, its sleeps end and its calls return: weak fairness of
\* the passing of time and of the worker's steps.
Succeeds == {outcome \in ApiOutcomes : outcome.result = "True"}

NextLive ==
    \/ \E spotify \in Samples, music \in Samples :
          volume_sync_thread = 0 /\ Connect(spotify, music) /\ UNCHANGED <<calls, lock, detached>>
    \/ \E velocity \in Velocities :
          midi_callback(CC_MESSAGE, velocity) /\ UNCHANGED <<calls, lock, detached>>
    \/ midi_callback(NOTE_ON, 0) /\ UNCHANGED <<calls, lock, detached>>
    \/ Disconnect /\ UNCHANGED <<calls, lock, detached>>
    \/ JoinFinished /\ UNCHANGED <<calls, lock, detached>>
    \/ JoinTimeout /\ UNCHANGED <<calls, lock, detached>>
    \/ PortException /\ UNCHANGED <<calls, lock, detached>>
    \/ WorkerSkip(1) /\ UNCHANGED <<calls, lock, detached>>
    \/ WorkerInvoke(1) /\ UNCHANGED <<calls, lock, detached>>
    \/ \E outcome \in Succeeds : WorkerReturn(1, outcome) /\ UNCHANGED <<calls, lock, detached>>
    \/ Tick /\ UNCHANGED <<calls, lock, detached>>

LiveSpec ==
    /\ Init
    /\ [][NextLive]_vars
    /\ WF_vars(Tick /\ UNCHANGED <<calls, lock, detached>>)
    /\ WF_vars(WorkerSkip(1) /\ UNCHANGED <<calls, lock, detached>>)
    /\ WF_vars(WorkerInvoke(1) /\ UNCHANGED <<calls, lock, detached>>)
    /\ WF_vars(\E outcome \in Succeeds : WorkerReturn(1, outcome) /\ UNCHANGED <<calls, lock, detached>>)

\* the first connection at the grain of the lock: the callback's set_volume
\* and the worker's snapshot, step by step
NextLock ==
    \/ \E spotify \in Samples, music \in Samples :
          volume_sync_thread = 0 /\ Connect(spotify, music) /\ UNCHANGED <<calls, lock, detached>>
    \/ \E velocity \in Velocities : set_volume_call(velocity)
    \/ set_volume_acquire
    \/ set_volume_store
    \/ set_volume_release
    \/ snapshot_acquire
    \/ snapshot_read
    \/ snapshot_release

LockSpec == Init /\ [][NextLock]_vars

\* the first connection and its teardown with an API whose calls may fail and
\* may never return.  Time passes, the main thread takes its steps and a
\* worker whose sleep is over runs its cycle; nothing makes a call return.
NextTeardown ==
    \/ \E spotify \in Samples, music \in Samples :
          volume_sync_thread = 0 /\ Connect(spotify, music) /\ UNCHANGED <<calls, lock, detached>>
    \/ \E velocity \in Velocities :
          midi_callback(CC_MESSAGE, velocity) /\ UNCHANGED <<calls, lock, detached>>
    \/ midi_callback(NOTE_ON, 0) /\ UNCHANGED <<calls, lock, detached>>
    \/ Disconnect /\ UNCHANGED <<calls, lock, detached>>
    \/ JoinFinished /\ UNCHANGED <<calls, lock, detached>>
    \/ JoinTimeout /\ UNCHANGED <<calls, lock, detached>>
    \/ PortException /\ UNCHANGED <<calls, lock, detached>>
    \/ WorkerSkip(1) /\ UNCHANGED <<calls, lock, detached>>
    \/ WorkerInvoke(1) /\ UNCHANGED <<calls, lock, detached>>
    \/ \E outcome \in ApiOutcomes : WorkerReturn(1, outcome) /\ UNCHANGED <<calls, lock, detached>>
    \/ Tick /\ UNCHANGED <<calls, lock, detached>>

TeardownSpec ==
    /\ Init
    /\ [][NextTeardown]_vars
    /\ WF_vars(Tick /\ UNCHANGED <<calls, lock, detached>>)
    /\ WF_vars(JoinFinished /\ UNCHANGED <<calls, lock, detached>>)
    /\ WF_vars(JoinTimeout /\ UNCHANGED <<calls, lock, detached>>)
    /\ WF_vars(WorkerSkip(1) /\ UNCHANGED <<calls, lock, detached>>)
    /\ WF_vars(WorkerInvoke(1) /\ UNCHANGED <<calls, lock, detached>>)

\* the whole program with threads that are scheduled and calls that return:
\* weak fairness of the passing of time and of every worker's steps
FairSpec ==
    /\ Init
    /\ [][Next]_vars
    /\ WF_vars(Tick /\ UNCHANGED <<calls, lock, detached>>)
    /\ \A w \in Workers :
          /\ WF_vars(WorkerSkip(w) /\ UNCHANGED <<calls, lock, detached>>)
          /\ WF_vars(WorkerInvoke(w) /\ UNCHANGED <<calls, lock, detached>>)
          /\ WF_vars(\E outcome \in ApiOutcomes :
                        WorkerReturn(w, outcome) /\ UNCHANGED <<calls, lock, detached>>)

\* the two set-volume operations called on their own, with any answers of the
\* remote API
NextApi ==
    \/ \E volume_percent \in RequestedVolumes, run \in ApiRuns :
          call_set_spotify_volume_api(volume_percent, run)
    \/ \E volume_percent \in RequestedVolumes, run \in StrategyRuns :
          call_SpotifyApiMediaStrategy_set_volume(volume_percent, run)

ApiSpec == Init /\ [][NextApi]_vars

\* the search for a device on its own, with any answers of Spotify
InitDevice ==
    /\ sp = TRUE
    /\ actual_app_volume_on_connect = None
    /\ is_latched = FALSE
    /\ target_volume = None
    /\ stop_sync_thread = FALSE
    /\ volume_sync_thread = 0
    /\ main_pc = "idle"
    /\ join_age = 0
    /\ worker = [w \in Workers |-> NoWorker]
    /\ last_velocity = None
    /\ calls = NoCalls
    /\ lock = NoLock
    /\ api = NoApi
    /\ throttle = NewThrottle
    /\ strategy = NoStrategyCall
    /\ taps = <<>>
    /\ device \in [searched : {FALSE}, current_playback_info : Playbacks,
                    all_devices : DeviceLists, failure : Failures,
                    returned : {Found(None, None)}]

NextDevice == call_get_spotify_device_id_for_volume_control

DeviceSpec == InitDevice /\ [][NextDevice]_vars

\* the methods of the strategies called on their own in any world
NextStrategy ==
    \E name \in Strategies, method \in Methods, app_name \in AppNames,
       volume_percent \in VolumePercents, world \in Worlds :
        call_strategy(name, method, app_name, volume_percent, world)

StrategySpec == Init /\ [][NextStrategy]_vars

\* one throttle_debounce wrapper called at any times with any arguments, its
\* caller and its Timer threads taking their steps in any order
NextThrottle ==
    \/ \E args \in Arguments : wrapper(args)
    \/ wrapper_last_call_time
    \/ wrapper_last_interaction_end_time
    \/ Timer_run
    \/ call_it_debounced_func
    \/ call_it_debounced_last_call_time
    \/ call_it_debounced_last_interaction_end_time
    \/ TickThrottle

ThrottleSpec == Init /\ [][NextThrottle]_vars

\* the latch alone: the state right after the first connection has been set up
\* with any reference volume, and then control-change messages of any value
InitLatch ==
    /\ sp \in BOOLEAN
    /\ actual_app_volume_on_connect \in AllSamples
    /\ is_latched = FALSE
    /\ target_volume = None
    /\ stop_sync_thread = FALSE
    /\ volume_sync_thread = 1
    /\ main_pc = "open"
    /\ join_age = 0
    /\ worker = [w \in Workers |-> IF w = 1 THEN NewWorker ELSE NoWorker]
    /\ last_velocity = None
    /\ calls = NoCalls
    /\ lock = NoLock
    /\ api = NoApi
    /\ throttle = NewThrottle
    /\ strategy = NoStrategyCall
    /\ taps = <<>>
    /\ device = NoSearch

NextLatch ==
    \/ \E velocity \in AllVelocities :
          midi_callback(CC_MESSAGE, velocity) /\ UNCHANGED <<calls, lock, detached>>
    \/ midi_callback(NOTE_ON, 0) /\ UNCHANGED <<calls, lock, detached>>

LatchSpec == InitLatch /\ [][NextLatch]_vars

\* an open connection with its callback: control changes and note-ons, with
\* the history of the key events (the first MaxTaps of them)
NextTap ==
    \/ \E velocity \in Velocities :
          /\ midi_callback(CC_MESSAGE, velocity)
          /\ ObserveTap(CC_MESSAGE)
          /\ UNCHANGED <<calls, lock, api, throttle, strategy, device>>
    \/ /\ Len(taps) < MaxTaps
       /\ midi_callback(NOTE_ON, 0)
       /\ ObserveTap(NOTE_ON)
       /\ UNCHANGED <<calls, lock, api, throttle, strategy, device>>

TapSpec == InitLatch /\ [][NextTap]_vars

\* ------------------------------------------------------------------ claims
\* the volume a connection samples freshly: Spotify's, else Music's, else None
FreshSample(spotify, music) == IF spotify # None THEN spotify ELSE music

\* the worker that SyncSpec observes
TheWorker == worker[1]
InCall == TheWorker.pc = "call"

\* C1: set_spotify_volume_api is never invoked while is_latched is false.
\* Fails: the target register survives a reconnect, so the worker of the new
\* connection sends the old target while the new connection is unlatched.
C1_NoCallBeforeLatch ==
    [][\A w \in Workers : WorkerInvoke(w) => is_latched]_vars

\* C2: while unlatched with a reference volume r, a reading latches if and
\* only if it is within LATCH_TOLERANCE_PERCENT of r (bound included); the
\* reading that latches is written to the target register, a reading that does
\* not latch leaves the register alone, and a reading that arrives latched
\* overwrites the register.
C2_LatchesIffWithinTolerance ==
    [][LET velocity == last_velocity'
           v == (velocity * 100) \div 127
           r == actual_app_volume_on_connect
       IN (/\ velocity \in AllVelocities
           /\ midi_callback(CC_MESSAGE, velocity)
           /\ r # None)
          => IF ~is_latched
             THEN /\ is_latched' <=> (v - r <= 3 /\ r - v <= 3)
                  /\ is_latched' => target_volume' = v
                  /\ ~is_latched' => target_volume' = target_volume
             ELSE is_latched' /\ target_volume' = v]_vars

\* 38 percent has latched a connection whose reference volume is 40
C2_Witness ==
    /\ actual_app_volume_on_connect = 40
    /\ is_latched
    /\ last_velocity = 49
    /\ target_volume = 38

\* C3: on every reconnect is_latched is false and the reference volume is the
\* value sampled at that connection, or None if none could be obtained.
\* Fails: the reference volume is only written while it is None.
C3_ReconnectSamplesReference ==
    [][\A spotify \in Samples, music \in Samples :
          (volume_sync_thread >= 1 /\ Connect(spotify, music))
          => /\ ~is_latched'
             /\ actual_app_volume_on_connect' = FreshSample(spotify, music)]_vars

\* C4: after a call answered with HTTP 429 the worker makes no call for
\* RATE_LIMIT_BACKOFF.  The gap between two calls is exact below SYNC_INTERVAL,
\* which is less than RATE_LIMIT_BACKOFF, so this states the claim for the
\* first SYNC_INTERVAL of the backoff.
\* Fails: set_spotify_volume_api swallows the exception, the worker sees False.
C4_NoCallDuringBackoff ==
    (InCall /\ calls.last_result = "limited")
    => (calls.gap >= SYNC_INTERVAL /\ SYNC_INTERVAL <= RATE_LIMIT_BACKOFF)

C6_NoTwoCallsForSameValue ==
    InCall => TheWorker.current_target # calls.last_sent

\* C6 amended: a call never carries None, nor the value of the last call if
\* that call succeeded.
C6_NoCallForSyncedValue ==
    InCall => /\ TheWorker.current_target # None
              /\ calls.last_result = "ok" => TheWorker.current_target # calls.last_sent

\* a call in flight with a new value after a successful call
C6_Witness ==
    /\ InCall
    /\ calls.last_result = "ok"
    /\ calls.last_sent = 37
    /\ TheWorker.current_target = 36

\* C7: at most one worker runs, and a worker runs a cycle only as the worker
\* of the current connection and before that connection's teardown is over.
\* Fails: an exception in the with block skips the stop flag, and a worker
\* that outlasts the join sees the flag cleared by the next connection.
C7_NoWorkerOutlivesConnection ==
    [][/\ Cardinality({w \in Workers : Running(w)}) <= 1
       /\ \A w \in Workers :
             (WorkerSkip(w) \/ WorkerInvoke(w))
             => (w = volume_sync_thread /\ main_pc # "idle")]_vars

\* C8: once latched, the target register holds the percentage of the last
\* reading delivered.
C8_TargetIsLastReading ==
    is_latched => target_volume = (last_velocity * 100) \div 127

\* a worker has applied 37 percent and a later reading has overwritten it
C8_Witness ==
    /\ is_latched
    /\ last_velocity = 46
    /\ target_volume = 36
    /\ \E w \in Workers : worker[w].last_synced_volume = 37

\* C9: without a reference volume the first reading, whatever its value,
\* latches and is written to the target register.
C9_NoReferenceLatchesAtOnce ==
    (actual_app_volume_on_connect = None /\ last_velocity # None)
    => (is_latched /\ target_volume = (last_velocity * 100) \div 127)

\* a reading of 20 percent has latched a connection without reference volume
C9_Witness ==
    /\ actual_app_volume_on_connect = None
    /\ last_velocity = 26
    /\ is_latched
    /\ target_volume = 20

\* C10: is_latched goes from true to false only in the setup of a connection.
C10_UnlatchedOnlyByConnect ==
    [][(is_latched /\ ~is_latched')
       => \E spotify \in Samples, music \in Samples : Connect(spotify, music)]_vars

\* a latched connection whose worker has applied a volume, then a reconnect
C10_Witness ==
    /\ ~is_latched
    /\ volume_sync_thread = 2
    /\ target_volume # None
    /\ \E w \in Workers : worker[w].last_synced_volume # None
\* C11: while unlatched with a reference volume r, a reading further than
\* LATCH_TOLERANCE_PERCENT from r changes nothing: is_latched, the reference
\* volume and the target register keep their values, and the callback starts
\* no call (no worker changes its position).
C11_ReadingOutsideToleranceDiscarded ==
    [][LET velocity == last_velocity'
           v == (velocity * 100) \div 127
           r == actual_app_volume_on_connect
       IN (/\ velocity \in AllVelocities
           /\ midi_callback(CC_MESSAGE, velocity)
           /\ ~is_latched
           /\ r # None
           /\ (v - r > LATCH_TOLERANCE_PERCENT \/ r - v > LATCH_TOLERANCE_PERCENT))
          => UNCHANGED <<is_latched, actual_app_volume_on_connect,
                         target_volume, worker, sp>>]_vars

\* 44 percent has arrived at a connection whose reference volume is 40
C11_Witness ==
    /\ actual_app_volume_on_connect = 40
    /\ ~is_latched
    /\ last_velocity = 56
    /\ target_volume = None
\* C12: however many values are written to the target register between two
\* snapshots of the worker, the call made with the later snapshot carries the
\* value written last, and between two calls of the worker lies at least one
\* sleep, so that the values written in between are sent by no call.
C12_CallCarriesLastWrite ==
    InCall => /\ calls.coalesced # <<>>
                 => TheWorker.current_target = calls.coalesced[Len(calls.coalesced)]
              /\ calls.gap # None => calls.gap >= SLEEP_QUANTUM

\* 36, 37 and 36 percent were written before the cycle, the call carries 36
C12_Witness ==
    /\ InCall
    /\ calls.coalesced = <<36, 37, 36>>
    /\ TheWorker.current_target = 36
\* C13: a call that fails for another reason than rate limiting (it returns
\* False or raises) leaves last_synced_volume, last_sync_time,
\* rate_limited_until and the target register as they are, so that the worker
\* is not in backoff and its next cycle is eligible; and a cycle that finds
\* the register holding the value of the failed call makes the call again.
C13_FailedCallChangesNothing ==
    [][/\ \A outcome \in ApiOutcomes :
             (/\ WorkerReturn(1, outcome)
              /\ outcome.result # "True"
              /\ ~outcome.limited
              /\ worker'[1].pc = "sleep")
             => /\ worker'[1].last_synced_volume = worker[1].last_synced_volume
                /\ worker'[1].last_sync_age = worker[1].last_sync_age
                /\ worker'[1].rate_limit_left = worker[1].rate_limit_left
                /\ target_volume' = target_volume
                /\ worker'[1].rate_limit_left = 0
                /\ worker'[1].last_sync_age >= SYNC_INTERVAL
                /\ worker'[1].last_synced_volume # worker[1].current_target
       /\ (/\ worker[1].pc = "wake"
           /\ calls.last_result \in {"fail", "raised"}
           /\ target_volume = calls.last_sent)
          => /\ ~WorkerSkip(1)
             /\ WorkerInvoke(1) => worker'[1].current_target = calls.last_sent]_vars

\* the call of 37 percent returned False and 37 percent is sent again
C13_Witness ==
    /\ InCall
    /\ calls.last_result = "fail"
    /\ calls.gap = SLEEP_QUANTUM
    /\ calls.last_sent = 37
    /\ TheWorker.current_target = 37
\* C14: a worker leaves its loop only when the stop flag is set, whatever its
\* calls return or raise, and the return of a call, failed or not, changes
\* nothing of the callback's and the connection loop's state.
C14_WorkerEndsOnlyOnStop ==
    [][/\ \A w \in Workers :
             (Running(w) /\ worker'[w].pc = "done") => stop_sync_thread
       /\ \A w \in Workers, outcome \in ApiOutcomes :
             WorkerReturn(w, outcome)
             => UNCHANGED <<is_latched, target_volume, actual_app_volume_on_connect,
                            main_pc, stop_sync_thread, sp>>]_vars

\* a call has raised, the flag is not set and the worker sleeps for its next cycle
C14_Witness ==
    /\ calls.last_result = "raised"
    /\ TheWorker.pc = "sleep"
    /\ ~stop_sync_thread
    /\ main_pc = "open"
\* C15: with a Spotify client and calls that succeed, a value v that a latched
\* connection has written to the target register while its worker runs is
\* eventually carried by a call and eventually becomes last_synced_volume,
\* unless the register is written again or the worker is told to stop.
C15_TargetEventuallySynced ==
    \A v \in {(velocity * 100) \div 127 : velocity \in Velocities} :
        LET Pending == /\ is_latched /\ sp /\ target_volume = v
                       /\ Running(1) /\ ~stop_sync_thread
                       /\ worker[1].last_synced_volume # v
            Released == target_volume # v \/ stop_sync_thread
        IN /\ Pending ~> (Released \/ (worker[1].pc = "call"
                                        /\ worker[1].current_target = v))
           /\ Pending ~> (Released \/ worker[1].last_synced_volume = v)

\* 37 percent has been applied and is still the target
C15_Witness ==
    /\ is_latched
    /\ target_volume = 37
    /\ worker[1].last_synced_volume = 37
    /\ worker[1].pc = "sleep"
    /\ ~stop_sync_thread
\* C16: set_volume and the worker's snapshot are never inside their with
\* blocks at the same time, the lock is held exactly while one of them is,
\* and a snapshot is None or a value that a write has stored.
C16_LockExcludes ==
    LET InSetVolume == lock.set_volume_pc \in {"in", "stored"}
        InSnapshot == lock.snapshot_pc \in {"in", "read"}
    IN /\ ~(InSetVolume /\ InSnapshot)
       /\ lock.locked <=> (InSetVolume \/ InSnapshot)
       /\ lock.current_target \in lock.written \cup {None}
       /\ target_volume \in lock.written \cup {None}

\* the worker reads 36 percent inside its with block while set_volume waits
\* for the lock with 37 percent
C16_Witness ==
    /\ lock.snapshot_pc = "read"
    /\ lock.current_target = 36
    /\ lock.set_volume_pc = "acquire"
    /\ lock.volume_percentage = 37
    /\ lock.locked
\* C17: handling a reading puts no call in flight: the callback changes
\* nothing but the latch flag and the target register, and every call that
\* comes in flight does so in a cycle of a worker.
C17_OnlyWorkerCalls ==
    [][/\ (last_velocity' \in Velocities
           /\ midi_callback(CC_MESSAGE, last_velocity'))
          => UNCHANGED <<worker, sp, actual_app_volume_on_connect,
                         stop_sync_thread, volume_sync_thread, main_pc>>
       /\ \A w \in Workers :
             (worker[w].pc # "call" /\ worker'[w].pc = "call")
             => (worker[w].pc = "wake" /\ WorkerInvoke(w))]_vars

\* 37 percent has passed the latch of the first connection and no call has
\* been made
C17_Witness ==
    /\ is_latched
    /\ last_velocity = 47
    /\ target_volume = 37
    /\ volume_sync_thread = 1
    /\ worker[1].pc = "sleep"
    /\ worker[1].last_synced_volume = None
\* C18: the teardown of a connection holds the stop flag set and always comes
\* to its end, main returning to its reconnect loop, also when the worker
\* stays inside a call for ever.
C18_TeardownCompletes ==
    /\ [](main_pc = "join" => stop_sync_thread)
    /\ (main_pc = "join") ~> (main_pc = "idle")

\* the join has timed out on a worker that is still inside its call
C18_Witness ==
    /\ main_pc = "idle"
    /\ volume_sync_thread = 1
    /\ stop_sync_thread
    /\ worker[1].pc = "call"
\* C19: a worker whose connection has set the stop flag eventually leaves its
\* loop, given that its calls return.
\* Fails: the flag is one global; the next connection clears it, and a worker
\* that was inside a call during the whole join reads it cleared.
C19_StoppedWorkerTerminates ==
    \A w \in Workers :
        (stop_sync_thread /\ volume_sync_thread = w /\ Running(w))
        ~> (worker[w].pc = "done")
\* C20 as claimed: the percentage handed to the latch is the integer nearest
\* to 100 * value / 127.
C20_PercentIsNearest ==
    (is_latched /\ last_velocity # None)
    => LET d == 127 * target_volume - 100 * last_velocity
       IN 2 * d <= 127 /\ -2 * d <= 127

\* C20 amended: the percentage handed to the latch is 100 * value / 127 with
\* the fraction cut off.
C20_PercentIsTruncated ==
    (is_latched /\ last_velocity # None)
    => /\ 127 * target_volume <= 100 * last_velocity
       /\ 100 * last_velocity < 127 * (target_volume + 1)

\* the value 1, 0.79 percent, has been handed to the latch as 0 percent
C20_Witness ==
    /\ is_latched
    /\ last_velocity = 1
    /\ target_volume = 0
\* an answer occurs in a run
Answered(run, answer) == \E i \in 1..Len(run) : run[i] = answer

\* C21: a set-volume call that the remote API answers with 429 produces
\* another outcome than a call of the same operation that fails with a
\* SpotifyException of any other kind.
\* Fails: both operations turn every SpotifyException into False.
C21_RateLimitDistinguished ==
    (/\ api.previous.function = api.last.function
     /\ Answered(api.previous.run, "429")
     /\ ~Answered(api.previous.run, "err")
     /\ ~Answered(api.previous.run, "exc")
     /\ api.previous.result # "True"
     /\ Answered(api.last.run, "err")
     /\ ~Answered(api.last.run, "429")
     /\ ~Answered(api.last.run, "exc")
     /\ api.last.result # "True")
    => api.previous.result # api.last.result
\* C22: once latched, a reading delivered a second time in a row leaves the
\* target register and the worker as the first delivery left them, and while
\* every write since the worker's last snapshot repeats the value it has
\* synced, its cycles make no call.
C22_RepeatedReadingIsNoOp ==
    /\ [][(/\ is_latched
           /\ last_velocity \in Velocities
           /\ last_velocity' = last_velocity
           /\ midi_callback(CC_MESSAGE, last_velocity))
          => (target_volume' = target_volume /\ worker' = worker)]_vars
    /\ [](LET writes == calls.pending
          IN (/\ TheWorker.pc = "wake"
              /\ writes # <<>>
              /\ \A i \in 1..Len(writes) :
                    writes[i] = TheWorker.last_synced_volume)
             => ~ENABLED WorkerInvoke(1))

\* 37 percent has been applied and then delivered twice more
C22_Witness ==
    /\ is_latched
    /\ calls.pending = <<37, 37>>
    /\ TheWorker.last_synced_volume = 37
    /\ target_volume = 37
    /\ TheWorker.pc = "wake"
\* C23: a call of the wrapper that arrives more than
\* first_call_interval_threshold after the last execution, or before any,
\* starts the function at once in the caller's thread with its arguments and
\* sets the throttle interval to initial_throttle_interval; no timer is left
\* waiting.
C23_NewInteractionExecutesAtOnce ==
    [][\A args \in Arguments :
          (/\ wrapper(args)
           /\ throttle.last_interaction_end_age > first_call_interval_threshold)
          => /\ throttle'.caller.pc = "func"
             /\ throttle'.caller.args = args
             /\ throttle'.caller.branch = "new"
             /\ throttle'.current_throttle_interval = initial_throttle_interval * Scale
             /\ throttle'.timers = {}]_vars

\* more than the threshold after every execution the caller is in the
\* function with the arguments 2, and the interval is the initial one
C23_Witness ==
    /\ throttle.caller.pc = "func"
    /\ throttle.caller.args = 2
    /\ throttle.caller.branch = "new"
    /\ throttle.last_call_age = AgeCap
    /\ throttle.current_throttle_interval = initial_throttle_interval * Scale
    /\ throttle.threads = {}

Pending ==
    Cardinality(throttle.timers)
    + Cardinality({th \in throttle.threads : th.pc = "run"})

\* C25: a call that arrives within the current throttle interval of the last
\* recorded execution is not executed at once and leaves exactly one timer
\* waiting, its own, set to debounce_interval; and at most one deferred call
\* is pending at any time.
\* Fails: a timer that has run out is beyond cancel(), so its call is pending
\* together with the timer of the later call.
C25_DeferredCall ==
    /\ [][\A args \in Arguments :
             (/\ wrapper(args)
              /\ throttle.last_interaction_end_age <= first_call_interval_threshold
              /\ throttle.last_call_age * Scale <= throttle.current_throttle_interval)
             => /\ throttle'.caller.pc = "idle"
                /\ throttle'.timers = {[left |-> debounce_interval, args |-> args,
                                        slot |-> TRUE]}]_vars
    /\ [](Pending <= 1)

\* C26: a method of a strategy called for an application for which
\* is_available is false returns None (get_volume) or False (set_volume,
\* toggle_play_pause), and no command reaches the application.
C26_UnavailableDoesNothing ==
    (strategy.method # "none" /\ ~strategy.available)
    => /\ ~strategy.returned.acted
       /\ IF strategy.method = "get_volume"
          THEN strategy.returned.result = None
          ELSE strategy.returned.result = "False"
\* C27: a call that returns True makes last_synced_volume the snapshot the
\* call carried and last_sync_time the time taken at the start of the cycle;
\* a register that was written during the call to another value then differs
\* from last_synced_volume, and a cycle that is neither too soon nor in
\* backoff and finds such a register makes a call.
C27_SnapshotIsRecorded ==
    /\ [][\A outcome \in ApiOutcomes :
             (/\ WorkerReturn(1, outcome)
              /\ outcome.result = "True"
              /\ worker'[1].pc = "sleep")
             => /\ worker'[1].last_synced_volume = worker[1].current_target
                /\ worker'[1].last_sync_age = worker[1].now_age
                /\ target_volume' = target_volume
                /\ target_volume # worker[1].current_target
                      => target_volume' # worker'[1].last_synced_volume]_vars
    /\ []((/\ TheWorker.pc = "wake"
           /\ sp
           /\ target_volume # TheWorker.last_synced_volume
           /\ ~TooSoon(TheWorker.last_sync_age)
           /\ ~RateLimited(TheWorker.rate_limit_left))
          => (ENABLED WorkerInvoke(1) /\ ~ENABLED WorkerSkip(1)))

\* the call for 36 percent has returned True; 37 percent was written while it
\* was in flight and is in the register
C27_Witness ==
    /\ TheWorker.pc = "sleep"
    /\ calls.last_result = "ok"
    /\ calls.last_sent = 36
    /\ calls.in_flight = <<37>>
    /\ TheWorker.last_synced_volume = 36
    /\ target_volume = 37
\* C28: whatever control-change values in 0..127 arrive, the target register
\* is None or an integer in 0..100, and a worker cycle that would make a call
\* finds a value in 0..100 to pass.
C28_TargetInRange ==
    /\ target_volume \in {None} \cup 0..100
    /\ last_velocity # None => Percent(last_velocity) \in 0..100
    /\ Invokes(1) => target_volume \in 0..100

\* the knob at its upper end: value 127 latched and wrote 100 percent, which
\* the next worker cycle would send
C28_Witness ==
    /\ is_latched
    /\ last_velocity = 127
    /\ target_volume = 100
    /\ Invokes(1)
\* C29: a note-on message posts exactly one play/pause key event, latched or
\* not, and leaves is_latched, the reference volume and the target register
\* as they are; no other message posts a key event.
C29_NoteOnTogglesOnce ==
    [][/\ (midi_callback(NOTE_ON, 0) /\ ObserveTap(NOTE_ON))
          => /\ taps' = Append(taps, CODE_PLAY)
             /\ UNCHANGED <<is_latched, actual_app_volume_on_connect, target_volume>>
       /\ taps' # taps
          => /\ midi_callback(NOTE_ON, 0)
             /\ Len(taps') = Len(taps) + 1]_vars

\* a note-on before the latch and one after it have each posted one key event
C29_Witness ==
    /\ taps = <<CODE_PLAY, CODE_PLAY>>
    /\ is_latched
    /\ target_volume = 37
    /\ actual_app_volume_on_connect = 40
\* C30: without a Spotify client no worker ever makes a call or records a
\* sync, and a cycle that finds the register changed leaves last_synced_volume
\* and last_sync_time as they are and goes back to sleep.
C30_NoClientNoCall ==
    /\ [](~sp => \A w \in Workers :
                    /\ worker[w].pc # "call"
                    /\ worker[w].last_synced_volume = None
                    /\ calls.last_sent = None
                    /\ ~ENABLED WorkerInvoke(w))
    /\ [][\A w \in Workers :
             (/\ ~sp
              /\ worker[w].pc = "wake"
              /\ worker'[w] # worker[w]
              /\ Changed(target_volume, worker[w].last_synced_volume))
             => /\ worker'[w].pc \in {"sleep", "done"}
                /\ worker'[w].pc = "sleep"
                      => /\ worker'[w].last_synced_volume = worker[w].last_synced_volume
                         /\ worker'[w].last_sync_age = worker[w].last_sync_age
                /\ target_volume' = target_volume]_vars

\* no client: the knob latched and wrote 37 percent, a cycle found it and
\* made no call
C30_Witness ==
    /\ ~sp
    /\ is_latched
    /\ target_volume = 37
    /\ calls.skipped = 37
    /\ TheWorker.pc = "sleep"
    /\ TheWorker.last_synced_volume = None
\* C31: one call of set_spotify_volume_api sends at most two volume requests,
\* each with the volume clamped to 0..100; it returns True exactly when the
\* first request or the retry was answered without an error; and what leaves
\* it is True, False or an exception that is no SpotifyException.
C31_AtMostTwoClampedRequests ==
    api.last.function = "set_spotify_volume_api"
    => LET call == api.last IN
       /\ Len(call.requests) \in {1, 2}
       /\ \A i \in 1..Len(call.requests) :
             /\ call.requests[i] \in 0..100
             /\ call.volume_percent \in 0..100
                   => call.requests[i] = call.volume_percent
             /\ call.volume_percent < 0 => call.requests[i] = 0
             /\ call.volume_percent > 100 => call.requests[i] = 100
       /\ Len(call.requests) = 2 => call.run[1] \in SpotifyErrors
       /\ call.result = "True"
             <=> \/ call.run[1] = "ok"
                 \/ Len(call.requests) = 2 /\ call.run[4] = "ok"
       /\ call.result \in {"True", "False", "Exception"}

\* a call for 140 percent was answered 429, found a device, transferred the
\* playback and sent 100 percent a second time, which went through
C31_Witness ==
    /\ api.last.function = "set_spotify_volume_api"
    /\ api.last.volume_percent = 140
    /\ api.last.run = <<"429", "dev", "ok", "ok">>
    /\ api.last.requests = <<100, 100>>
    /\ api.last.result = "True"
\* C32: a Timer thread whose call a later call has superseded never calls the
\* function, and the function never runs in two threads at once.
\* Fails: cancel() does not stop a Timer that has left its waiting stage, and
\* the closure has no lock.
C32_SupersededNeverExecutes ==
    /\ \A th \in throttle.threads : th.pc = "func" => ~th.superseded
    /\ Cardinality({th \in throttle.threads : th.pc = "func"})
         + (IF throttle.caller.pc = "func" THEN 1 ELSE 0) <= 1

\* C35: when neither the caller nor a Timer thread is at work, last_call_time
\* equals last_interaction_end_time; and a call never takes the throttled
\* branch while the throttle interval is at least
\* first_call_interval_threshold.
\* Fails: the two times are stored one after the other without a lock, by
\* the caller with the time of its entry and by a Timer thread with the
\* time of its return, so the stores of the two can end interleaved.
C35_TimesEqual ==
    /\ (throttle.caller.pc = "idle" /\ throttle.threads = {})
          => throttle.last_call_age = throttle.last_interaction_end_age
    /\ (/\ throttle.caller.pc = "func"
        /\ throttle.caller.branch = "throttle"
        /\ throttle.caller.now_age = 0)
          => throttle.current_throttle_interval
                < first_call_interval_threshold * Scale
\* C33: every connection leaves as reference volume Spotify's volume when it
\* was obtained, else Music's when it was obtained, else None; and a
\* connection without a reference latches on the first reading of the remote.
\* Fails: the samples are only stored while the reference is None, so a
\* connection that finds a reference from the startup or from an earlier
\* connection keeps it, whatever Spotify and Music report.
C33_ReferenceAtConnection ==
    /\ [][\A spotify \in Samples, music \in Samples :
             Connect(spotify, music)
             => actual_app_volume_on_connect' = FreshSample(spotify, music)]_vars
    /\ [][LET velocity == last_velocity'
          IN (/\ velocity \in AllVelocities
              /\ midi_callback(CC_MESSAGE, velocity)
              /\ ~is_latched
              /\ actual_app_volume_on_connect = None)
             => /\ is_latched'
                /\ target_volume' = (velocity * 100) \div 127]_vars
\* the devices of the list that qualify: not restricted and, where an id is
\* asked for, with an id
Qualified(all_devices, dev_type, with_id) ==
    {i \in 1..Len(all_devices) :
        /\ ~all_devices[i].is_restricted
        /\ with_id => all_devices[i].id # None
        /\ dev_type # "" => all_devices[i].type = dev_type}

\* the position the claimed order chooses in the list: the first qualified
\* Computer, else the first qualified Speaker, else the first qualified
\* device; 0 when none qualifies
ClaimedChoice(all_devices, with_id) ==
    LET tier == IF Qualified(all_devices, "Computer", with_id) # {}
                THEN Qualified(all_devices, "Computer", with_id)
                ELSE IF Qualified(all_devices, "Speaker", with_id) # {}
                THEN Qualified(all_devices, "Speaker", with_id)
                ELSE Qualified(all_devices, "", with_id)
    IN IF tier = {} THEN 0 ELSE CHOOSE i \in tier : \A j \in tier : i <= j

\* the requests of the search are answered
RequestsAnswered == device.failure.request \in {"none", "transfer_playback"}
\* the current playback has a device
OnDevice ==
    device.current_playback_info.info /\ device.current_playback_info.has_device

\* C34 as claimed: when current_playback() and devices() answer, a current
\* playback with a device makes the search return that device's id without a
\* transfer; otherwise the search chooses the first non-restricted Computer,
\* else Speaker, else device of the list, asks for a transfer to it and
\* returns its id, or None when the transfer fails; with nothing to choose it
\* returns None without a transfer.
C34_DeviceOrder ==
    (device.searched /\ RequestsAnswered)
    => LET choice == ClaimedChoice(device.all_devices, FALSE)
       IN IF OnDevice
          THEN device.returned = Found(device.current_playback_info.id, None)
          ELSE IF choice = 0
          THEN device.returned = Found(None, None)
          ELSE IF device.failure.request = "transfer_playback"
          THEN device.returned = Found(None, device.all_devices[choice].id)
          ELSE device.returned = Found(device.all_devices[choice].id,
                                       device.all_devices[choice].id)

\* C34 amended: only devices with an id count, the device of the current
\* playback included; a chosen device with an empty name and a request that
\* raises make the search return None.
C34_DeviceOrderAmongDevicesWithId ==
    device.searched
    => LET choice == ClaimedChoice(device.all_devices, TRUE)
       IN IF device.failure.request = "current_playback"
          THEN device.returned = Found(None, None)
          ELSE IF OnDevice /\ device.current_playback_info.id # None
          THEN device.returned = Found(device.current_playback_info.id, None)
          ELSE IF device.failure.request = "devices" \/ choice = 0
          THEN device.returned = Found(None, None)
          ELSE IF device.all_devices[choice].name = ""
          THEN device.returned = Found(None, None)
          ELSE IF device.failure.request = "transfer_playback"
          THEN device.returned = Found(None, device.all_devices[choice].id)
          ELSE device.returned = Found(device.all_devices[choice].id,
                                       device.all_devices[choice].id)

\* with no device in the current playback, a free Smartphone listed before a
\* free Speaker: the search transfers playback to the Speaker and returns it
C34_Witness ==
    /\ device.searched
    /\ ~OnDevice
    /\ device.failure.request = "none"
    /\ device.all_devices =
          <<[type |-> "Smartphone", id |-> 1, name |-> "Den",
             is_restricted |-> FALSE],
            [type |-> "Speaker", id |-> 2, name |-> "Den",
             is_restricted |-> FALSE]>>
    /\ device.returned = Found(2, 2)
====
